---- MODULE Spec2Model ----
(***************************************************************************)
(* A model of fibers-rs: the evented TCP layer (src/src/net/tcp.rs) and    *)
(* the thread pool executor (src/src/executor/futures_thread_pool.rs).     *)
(*                                                                         *)
(* Spec drives the accepting side of the TCP layer: the Incoming stream of *)
(* a listener, the Connected futures and the TcpStream values they yield,  *)
(* against a poller that completes or fails the monitors and registrations *)
(* requested from it.  ConnectSpec drives the connecting side, the Connect *)
(* futures.  StreamSpec drives one connection: its TcpStream and the       *)
(* clones made of it.  FutureSpec drives the futures of both sides        *)
(* together.  PoolSpec drives the ThreadPoolExecutor: a main               *)
(* thread that spawns a plan of fibers and then runs run_fiber, against    *)
(* the threads of the pool.  FibSpec is the doc test of the executor       *)
(* under fair scheduling of the threads.                                   *)
(***************************************************************************)
EXTENDS Integers, Sequences, FiniteSets, TLC

\* ------------------------------------------------------------------ bounds
MaxMonitors == 2    \* monitors registered with the poller at a time
MaxSockets  == 1    \* OS sockets created by accept() and connect() in a run
MaxStreams  == 2    \* TcpStream values alive at a time (clones included)
MaxConnects == 1    \* Connect futures created in a run
MaxN        == 3    \* fib(n) is run for n in 0..MaxN
MaxPool     == 2    \* the thread pool has 1..MaxPool threads

\* --------------------------------------------------------------- TCP state
VARIABLES
    streams,     \* live TcpStream values: id -> [inner, handle, read_monitor, write_monitor]
    listener,    \* the TcpListener inside Incoming: [handle, monitor]
    mon,         \* monitors handed out by EventedHandle::monitor: id -> [handle, interest, owner, st]
    regs,        \* poll::Register futures, one per socket: socket -> "pending" | "ready" | "failed"
    connected,   \* Connected futures: id -> [some, sock]
    connects,    \* Connect futures: id -> ConnectInner, [phase, sock, stream]
    phases,      \* the phases each Connect future has been in, in order
    nextSock,    \* next socket id
    ret          \* the call just made and the value it returned (NoRet after a poller step)

\* -------------------------------------------------------------- pool state
VARIABLES
    plan,        \* the fibers the main thread spawns, in order: [kind, n, c0, c1, monitored, via]
    spawned,     \* how many of them it has spawned
    mainpc,      \* the main thread: "spawn", "run" (inside run_fiber), "done"
    answer,      \* what run_fiber returned
    tst,         \* the pool's tasks: fiber -> "queued" | "polling" | "parked" | "done"
    queue,       \* the pool's queue of tasks to run
    worker,      \* the pool's threads: worker -> [st, task], st "idle" | "busy" | "dead"
    pmon,        \* the monitors spawn_monitor returned: fiber -> result, "none" while pending
    ran          \* the run_once call just made: [res, dead], NoRun after another step

poolVars == <<plan, spawned, mainpc, answer, tst, queue, worker, pmon, ran>>

tcpVars == <<streams, listener, mon, regs, connected, connects, phases,
             nextSock, ret>>

\* Option<Monitor>::None.  A monitor is named by the value that requested
\* it, its interest, and its rank among the monitors that value has
\* registered for that interest: <<owner, interest, n>>.
None == <<>>

\* poll::Interest
Read  == "Read"
Write == "Write"
Interest == {Read, Write}

\* The owner recorded for a monitor requested by the listener (streams are >= 1).
ListenerOwner == 0

\* The outcomes of a socket call: f(&mut inner), accept(), connect().
SockResult == {"Ok", "WouldBlock", "IoError"}

\* What a call returned: the call, the value it was made on, the interest it
\* used (for Connect::poll: what its flush probe returned, "-" if it made
\* none), the result, whether the socket call ran, and the TcpStream or
\* Connected value an Ok carries (0: none).
Ret(op, id, arg, res, called, val) ==
    [op |-> op, id |-> id, arg |-> arg, res |-> res, called |-> called, val |-> val]

NoRet == Ret("none", 0, "-", "-", FALSE, 0)

\* ------------------------------------------------------ monitors, poller side

\* Monitor::poll: Ok(NotReady) while the poller has not fulfilled it,
\* Ok(Ready(())) once it has, Err(..) when it failed or was aborted.
MonitorPoll(m) ==
    CASE mon[m].st = "pending" -> "NotReady"
      [] mon[m].st = "ready"   -> "Ready"
      [] OTHER                 -> "Err"

\* The name the next monitor of the owner for the interest gets.
FreshMonitor(owner, interest) ==
    <<owner, interest,
      CHOOSE n \in 1..(MaxMonitors + 1) :
          /\ <<owner, interest, n>> \notin DOMAIN mon
          /\ \A j \in 1..(n - 1) : <<owner, interest, j>> \in DOMAIN mon>>

\* The id the next TcpStream value gets, likewise.
FreshStream ==
    CHOOSE i \in 1..(MaxStreams + 1) :
        /\ i \notin DOMAIN streams
        /\ \A j \in 1..(i - 1) : j \in DOMAIN streams

\* EventedHandle::monitor(interest): a fresh pending monitor, registered with
\* the poller of the handle.
NewMonitor(handle, interest, owner) ==
    [handle |-> handle, interest |-> interest, owner |-> owner, st |-> "pending"]

\* The monitors some live value still holds in a slot.
HeldIn(ss, l) ==
    {ss[s].read_monitor : s \in DOMAIN ss} \cup {ss[s].write_monitor : s \in DOMAIN ss}
        \cup {l.monitor}

\* The monitor table after a step: a monitor polled to completion is dropped
\* by its consumer; one that is still pending stays registered with the
\* poller until the poller fulfils it or the value that requested it is gone.
Sweep(mm, ss, l) ==
    [m \in {x \in DOMAIN mm :
                \/ x \in HeldIn(ss, l)
                \/ mm[x].st = "pending" /\ mm[x].owner \in DOMAIN ss \cup {ListenerOwner}}
        |-> mm[m]]

\* f @@ (k :> v) for the tables of the model.
Put(f, k, v) == [x \in DOMAIN f \cup {k} |-> IF x = k THEN v ELSE f[x]]
Del(f, k)    == [x \in DOMAIN f \ {k} |-> f[x]]

\* ------------------------------------------------------------- TcpStream

\* TcpStream::new
TcpStreamNew(inner, handle) ==
    [inner |-> inner, handle |-> handle, read_monitor |-> None, write_monitor |-> None]

\* Clone copying the monitor slots too (a derived field-by-field copy).
TcpStreamClone_copying(self) == self

\* impl Clone for TcpStream
TcpStreamClone(self) ==
    [inner |-> self.inner, handle |-> self.handle,
     read_monitor |-> None, write_monitor |-> None]

\* TcpStream::monitor yielding the read slot for every interest.
monitor_shared(self, interest) == self.read_monitor

\* TcpStream::monitor: the slot of the interest.
monitor(self, interest) ==
    IF interest = Read THEN self.read_monitor ELSE self.write_monitor

\* *self.monitor(interest) = v
SetMonitor(self, interest, v) ==
    IF interest = Read THEN [self EXCEPT !.read_monitor = v]
                       ELSE [self EXCEPT !.write_monitor = v]

\* operate with the arming of line 316 left out: a would-block of f is
\* returned with no monitor stored.
RECURSIVE operate_unarmed(_, _, _, _)
operate_unarmed(me, self, interest, fres) ==
    LET m == monitor(self, interest) IN
    IF m # None
    THEN LET taken == SetMonitor(self, interest, None)
             p     == MonitorPoll(m)
         IN  CASE p = "Err"   -> [self |-> taken, res |-> "MonitorError",
                                  called |-> FALSE, fresh |-> None]
               [] p = "Ready" -> operate_unarmed(me, taken, interest, fres)
               [] OTHER       -> [self |-> SetMonitor(taken, interest, m),
                                  res |-> "WouldBlock", called |-> FALSE, fresh |-> None]
    ELSE [self |-> self, res |-> fres, called |-> TRUE, fresh |-> None]

\* operate without the early return of lines 309-312: a monitor that is not
\* ready yet is taken all the same and f is tried.
RECURSIVE operate_overwriting(_, _, _, _)
operate_overwriting(me, self, interest, fres) ==
    LET m == monitor(self, interest) IN
    IF m # None
    THEN LET taken == SetMonitor(self, interest, None)
             p     == MonitorPoll(m)
         IN  CASE p = "Err" -> [self |-> taken, res |-> "MonitorError",
                                called |-> FALSE, fresh |-> None]
               [] OTHER     -> operate_overwriting(me, taken, interest, fres)
    ELSE IF fres = "WouldBlock"
         THEN [self |-> SetMonitor(self, interest, FreshMonitor(me, interest)),
               res |-> fres, called |-> TRUE, fresh |-> FreshMonitor(me, interest)]
         ELSE [self |-> self, res |-> fres, called |-> TRUE, fresh |-> None]

\* operate forgetting the monitor it found pending: would-block is returned
\* with the slot left empty (line 310 left out).
RECURSIVE operate_dropping(_, _, _, _)
operate_dropping(me, self, interest, fres) ==
    LET m == monitor(self, interest) IN
    IF m # None
    THEN LET taken == SetMonitor(self, interest, None)
             p     == MonitorPoll(m)
         IN  CASE p = "Err"   -> [self |-> taken, res |-> "MonitorError",
                                  called |-> FALSE, fresh |-> None]
               [] p = "Ready" -> operate_dropping(me, taken, interest, fres)
               [] OTHER       -> [self |-> taken,
                                  res |-> "WouldBlock", called |-> FALSE, fresh |-> None]
    ELSE IF fres = "WouldBlock"
         THEN [self |-> SetMonitor(self, interest, FreshMonitor(me, interest)),
               res |-> fres, called |-> TRUE, fresh |-> FreshMonitor(me, interest)]
         ELSE [self |-> self, res |-> fres, called |-> TRUE, fresh |-> None]

\* operate arming a monitor after every error of f, not only would-block.
RECURSIVE operate_arming_on_error(_, _, _, _)
operate_arming_on_error(me, self, interest, fres) ==
    LET m == monitor(self, interest) IN
    IF m # None
    THEN LET taken == SetMonitor(self, interest, None)
             p     == MonitorPoll(m)
         IN  CASE p = "Err"   -> [self |-> taken, res |-> "MonitorError",
                                  called |-> FALSE, fresh |-> None]
               [] p = "Ready" -> operate_arming_on_error(me, taken, interest, fres)
               [] OTHER       -> [self |-> SetMonitor(taken, interest, m),
                                  res |-> "WouldBlock", called |-> FALSE, fresh |-> None]
    ELSE IF fres # "Ok"
         THEN [self |-> SetMonitor(self, interest, FreshMonitor(me, interest)),
               res |-> fres, called |-> TRUE, fresh |-> FreshMonitor(me, interest)]
         ELSE [self |-> self, res |-> fres, called |-> TRUE, fresh |-> None]

\* operate putting a failed monitor back in the slot, as it does a pending
\* one, before it returns the error.
RECURSIVE operate_keeping_failed(_, _, _, _)
operate_keeping_failed(me, self, interest, fres) ==
    LET m == monitor(self, interest) IN
    IF m # None
    THEN LET taken == SetMonitor(self, interest, None)
             p     == MonitorPoll(m)
         IN  CASE p = "Err"   -> [self |-> SetMonitor(taken, interest, m),
                                  res |-> "MonitorError",
                                  called |-> FALSE, fresh |-> None]
               [] p = "Ready" -> operate_keeping_failed(me, taken, interest, fres)
               [] OTHER       -> [self |-> SetMonitor(taken, interest, m),
                                  res |-> "WouldBlock", called |-> FALSE, fresh |-> None]
    ELSE IF fres = "WouldBlock"
         THEN [self |-> SetMonitor(self, interest, FreshMonitor(me, interest)),
               res |-> fres, called |-> TRUE, fresh |-> FreshMonitor(me, interest)]
         ELSE [self |-> self, res |-> fres, called |-> TRUE, fresh |-> None]

\* TcpStream::operate(interest, f) on the value me; fres is what f returns if
\* it is called.
\* Yields the stream afterwards, the result, whether f was called, and the
\* monitor requested from the handle (None: none was).
RECURSIVE operate(_, _, _, _)
operate(me, self, interest, fres) ==
    LET m == monitor(self, interest) IN
    IF m # None
    THEN LET taken == SetMonitor(self, interest, None)
             p     == MonitorPoll(m)
         IN  CASE p = "Err"   -> [self |-> taken, res |-> "MonitorError",
                                  called |-> FALSE, fresh |-> None]
               [] p = "Ready" -> operate(me, taken, interest, fres)
               [] OTHER       -> [self |-> SetMonitor(taken, interest, m),
                                  res |-> "WouldBlock", called |-> FALSE, fresh |-> None]
    ELSE IF fres = "WouldBlock"
         THEN [self |-> SetMonitor(self, interest, FreshMonitor(me, interest)),
               res |-> fres, called |-> TRUE, fresh |-> FreshMonitor(me, interest)]
         ELSE [self |-> self, res |-> fres, called |-> TRUE, fresh |-> None]

\* The monitor table once the monitor a call requested is registered.
Requested(handle, interest, owner, fresh) ==
    IF fresh = None THEN mon ELSE Put(mon, fresh, NewMonitor(handle, interest, owner))

\* A read, write or flush of the TcpStream value s: operate with the interest
\* of the call, on the socket call's outcome fres.
StreamCall(op, s, interest, fres) ==
    /\ s \in DOMAIN streams
    /\ LET r  == operate(s, streams[s], interest, fres)
           ss == [streams EXCEPT ![s] = r.self]
       IN  /\ streams' = ss
           /\ mon' = Sweep(Requested(streams[s].handle, interest, s, r.fresh), ss, listener)
           /\ Cardinality(DOMAIN mon') <= MaxMonitors
           /\ ret' = Ret(op, s, interest, r.res, r.called, 0)
    /\ UNCHANGED <<listener, regs, connected, connects, phases, nextSock>>
    /\ UNCHANGED poolVars

\* impl io::Read for TcpStream
read(s) == \E fres \in SockResult : StreamCall("read", s, Read, fres)

\* impl io::Write for TcpStream
write(s) == \E fres \in SockResult : StreamCall("write", s, Write, fres)

flush(s) == \E fres \in SockResult : StreamCall("flush", s, Write, fres)

\* stream.clone(): a new TcpStream value beside the original.
clone(s) ==
    /\ s \in DOMAIN streams
    /\ FreshStream <= MaxStreams
    /\ streams' = Put(streams, FreshStream, TcpStreamClone(streams[s]))
    /\ ret' = Ret("clone", s, "-", "Ok", FALSE, FreshStream)
    /\ UNCHANGED <<listener, mon, regs, connected, connects, phases, nextSock>>
    /\ UNCHANGED poolVars

\* A TcpStream value goes out of scope: its monitors lose their consumer.
drop(s) ==
    /\ s \in DOMAIN streams
    /\ streams' = Del(streams, s)
    /\ mon' = Sweep(mon, streams', listener)
    /\ ret' = Ret("drop", s, "-", "Ok", FALSE, 0)
    /\ UNCHANGED <<listener, regs, connected, connects, phases, nextSock>>
    /\ UNCHANGED poolVars

\* ------------------------------------------------------- Incoming, Connected

\* Incoming::poll ending the stream when accept() fails with another error
\* than would-block.
RECURSIVE Incoming_poll_ending(_, _)
Incoming_poll_ending(l, acc) ==
    IF l.monitor # None
    THEN LET p == MonitorPoll(l.monitor)
         IN  CASE p = "Err"   -> [self |-> [l EXCEPT !.monitor = None], res |-> "MonitorError",
                                  called |-> FALSE, fresh |-> None]
               [] p = "Ready" -> Incoming_poll_ending([l EXCEPT !.monitor = None], acc)
               [] OTHER       -> [self |-> l, res |-> "NotReady",
                                  called |-> FALSE, fresh |-> None]
    ELSE CASE acc = "Ok"         -> [self |-> l, res |-> "ReadySome",
                                     called |-> TRUE, fresh |-> None]
           [] acc = "WouldBlock" -> [self |-> [l EXCEPT !.monitor = FreshMonitor(ListenerOwner, Read)],
                                     res |-> "NotReady", called |-> TRUE,
                                     fresh |-> FreshMonitor(ListenerOwner, Read)]
           [] OTHER              -> [self |-> l, res |-> "ReadyNone",
                                     called |-> TRUE, fresh |-> None]

\* Incoming::poll leaving the retry to the next poll: a monitor found ready
\* is cleared and NotReady returned, accept() not being called.
Incoming_poll_not_retrying(l, acc) ==
    IF l.monitor # None
    THEN LET p == MonitorPoll(l.monitor)
         IN  CASE p = "Err"   -> [self |-> [l EXCEPT !.monitor = None], res |-> "MonitorError",
                                  called |-> FALSE, fresh |-> None]
               [] p = "Ready" -> [self |-> [l EXCEPT !.monitor = None], res |-> "NotReady",
                                  called |-> FALSE, fresh |-> None]
               [] OTHER       -> [self |-> l, res |-> "NotReady",
                                  called |-> FALSE, fresh |-> None]
    ELSE CASE acc = "Ok"         -> [self |-> l, res |-> "ReadySome",
                                     called |-> TRUE, fresh |-> None]
           [] acc = "WouldBlock" -> [self |-> [l EXCEPT !.monitor = FreshMonitor(ListenerOwner, Read)],
                                     res |-> "NotReady", called |-> TRUE,
                                     fresh |-> FreshMonitor(ListenerOwner, Read)]
           [] OTHER              -> [self |-> l, res |-> acc,
                                     called |-> TRUE, fresh |-> None]

\* Incoming::poll on the listener l, accept() returning acc if it is called.
\* Yields the listener afterwards, the result, whether accept was called
\* and the monitor requested from the handle.
RECURSIVE Incoming_poll(_, _)
Incoming_poll(l, acc) ==
    IF l.monitor # None
    THEN LET p == MonitorPoll(l.monitor)
         IN  CASE p = "Err"   -> [self |-> [l EXCEPT !.monitor = None], res |-> "MonitorError",
                                  called |-> FALSE, fresh |-> None]
               [] p = "Ready" -> Incoming_poll([l EXCEPT !.monitor = None], acc)
               [] OTHER       -> [self |-> l, res |-> "NotReady",
                                  called |-> FALSE, fresh |-> None]
    ELSE CASE acc = "Ok"         -> [self |-> l, res |-> "ReadySome",
                                     called |-> TRUE, fresh |-> None]
           [] acc = "WouldBlock" -> [self |-> [l EXCEPT !.monitor = FreshMonitor(ListenerOwner, Read)],
                                     res |-> "NotReady", called |-> TRUE,
                                     fresh |-> FreshMonitor(ListenerOwner, Read)]
           [] OTHER              -> [self |-> l, res |-> acc,
                                     called |-> TRUE, fresh |-> None]

\* A poll of the Incoming stream.  An accepted socket gets a Register
\* future from the poller and is handed out inside a Connected future.
IncomingPoll ==
    \E acc \in SockResult :
        LET r == Incoming_poll(listener, acc)
            accepted == r.res = "ReadySome"
        IN  /\ accepted => nextSock <= MaxSockets
            /\ listener' = r.self
            /\ mon' = Sweep(Requested(listener.handle, Read, ListenerOwner, r.fresh),
                            streams, r.self)
            /\ Cardinality(DOMAIN mon') <= MaxMonitors
            /\ regs' = IF accepted THEN Put(regs, nextSock, "pending") ELSE regs
            /\ connected' = IF accepted
                             THEN Put(connected, nextSock, [some |-> TRUE, sock |-> nextSock])
                             ELSE connected
            /\ nextSock' = IF accepted THEN nextSock + 1 ELSE nextSock
            /\ ret' = Ret("Incoming::poll", 0, Read, r.res, r.called,
                          IF accepted THEN nextSock ELSE 0)
            /\ UNCHANGED <<streams, connects, phases>>
            /\ UNCHANGED poolVars

\* Connected::poll handing the stream out without waiting for the
\* registration: only a failed one is told apart.
Connected_poll_eager(c, rst) ==
    IF ~c.some
    THEN [self |-> c, res |-> "Panic", stream |-> None]
    ELSE CASE rst = "failed" -> [self |-> [c EXCEPT !.some = FALSE], res |-> "RegisterError",
                                 stream |-> None]
           [] OTHER          -> [self |-> [c EXCEPT !.some = FALSE], res |-> "Ready",
                                 stream |-> TcpStreamNew(c.sock, c.sock)]

\* Connected::poll looking at its stream and registration without taking
\* them: they are still there after a Ready or an error.
Connected_poll_keeping(c, rst) ==
    IF ~c.some
    THEN [self |-> c, res |-> "Panic", stream |-> None]
    ELSE CASE rst = "failed" -> [self |-> c, res |-> "RegisterError", stream |-> None]
           [] rst = "ready"  -> [self |-> c, res |-> "Ready",
                                 stream |-> TcpStreamNew(c.sock, c.sock)]
           [] OTHER          -> [self |-> c, res |-> "NotReady", stream |-> None]

\* Connected::poll on the future c, with the Register future in state rst.
\* Yields the future afterwards, the result and the TcpStream of a Ready.
Connected_poll(c, rst) ==
    IF ~c.some
    THEN [self |-> c, res |-> "Panic", stream |-> None]
    ELSE CASE rst = "failed" -> [self |-> [c EXCEPT !.some = FALSE], res |-> "RegisterError",
                                 stream |-> None]
           [] rst = "ready"  -> [self |-> [c EXCEPT !.some = FALSE], res |-> "Ready",
                                 stream |-> TcpStreamNew(c.sock, c.sock)]
           [] OTHER          -> [self |-> c, res |-> "NotReady", stream |-> None]

ConnectedPoll(c) ==
    /\ c \in DOMAIN connected
    /\ LET r == Connected_poll(connected[c], regs[connected[c].sock])
       IN  /\ r.res = "Ready" => FreshStream <= MaxStreams
           /\ connected' = [connected EXCEPT ![c] = r.self]
           /\ streams' = IF r.res = "Ready" THEN Put(streams, FreshStream, r.stream) ELSE streams
           /\ ret' = Ret("Connected::poll", c, "-", r.res, FALSE,
                         IF r.res = "Ready" THEN FreshStream ELSE 0)
    /\ UNCHANGED <<listener, mon, regs, connects, phases, nextSock>>
    /\ UNCHANGED poolVars

\* ------------------------------------------------------------------ Connect

\* enum ConnectInner
NoStream == TcpStreamNew(0, 0)
CI_Connect          == [phase |-> "Connect", sock |-> 0, stream |-> NoStream]
CI_Registering(k)   == [phase |-> "Registering", sock |-> k, stream |-> NoStream]
CI_Connecting(strm) == [phase |-> "Connecting", sock |-> strm.inner, stream |-> strm]
CI_Polled           == [phase |-> "Polled", sock |-> 0, stream |-> NoStream]

\* The owner recorded for a monitor requested by the TcpStream a Connect
\* future holds (it is no TcpStream value of the program yet).
ConnectOwner(c) == 0 - c

\* What ConnectInner::poll yields: the future afterwards, the result, the
\* TcpStream of a Ready, the monitor requested, whether a socket was
\* created (and registered), what the flush probe returned ("-": it was not
\* made), and the phases the future entered on the way.
CI_Out(self, res, strm, fresh, probe, path) ==
    [self |-> self, res |-> res, stream |-> strm, fresh |-> fresh,
     newsock |-> FALSE, probe |-> probe, path |-> path]

\* ConnectInner::poll not waiting in the Registering phase: a registration
\* that is still pending is taken for a complete one.
RECURSIVE ConnectInner_poll_unregistered(_, _, _, _, _, _)
ConnectInner_poll_unregistered(me, self, rg, cres, r0, fres) ==
    CASE self.phase = "Connect" ->
            IF cres # "Ok"
            THEN CI_Out(CI_Polled, cres, NoStream, None, "-", <<"Polled">>)
            ELSE LET r == ConnectInner_poll_unregistered(me, CI_Registering(nextSock),
                                            Put(rg, nextSock, r0), cres, r0, fres)
                 IN  [r EXCEPT !.newsock = TRUE, !.path = <<"Registering">> \o @]
      [] self.phase = "Registering" ->
            CASE rg[self.sock] = "failed" ->
                    CI_Out(CI_Polled, "RegisterError", NoStream, None, "-", <<"Polled">>)
              [] OTHER ->
                    LET r == ConnectInner_poll_unregistered(me,
                                 CI_Connecting(TcpStreamNew(self.sock, self.sock)),
                                 rg, cres, r0, fres)
                    IN  [r EXCEPT !.path = <<"Connecting">> \o @]
      [] self.phase = "Connecting" ->
            LET o == operate(me, self.stream, Write, fres)
            IN  CASE o.res = "Ok" ->
                        CI_Out(CI_Polled, "Ready", o.self, o.fresh, fres, <<"Polled">>)
                  [] o.res = "WouldBlock" ->
                        CI_Out(CI_Polled, "NotReady", NoStream, o.fresh, fres, <<"Polled">>)
                  [] OTHER ->
                        CI_Out(CI_Polled, o.res, NoStream, o.fresh, fres, <<"Polled">>)
      [] OTHER -> CI_Out(self, "Panic", NoStream, None, "-", <<>>)

\* ConnectInner::poll.  me: the owner of the monitors it requests; rg: the Register futures; cres: what connect()
\* returns; r0: the state of a new registration when it is first polled;
\* fres: what the socket's flush returns.
RECURSIVE ConnectInner_poll(_, _, _, _, _, _)
ConnectInner_poll(me, self, rg, cres, r0, fres) ==
    CASE self.phase = "Connect" ->
            IF cres # "Ok"
            THEN CI_Out(CI_Polled, cres, NoStream, None, "-", <<"Polled">>)
            ELSE LET r == ConnectInner_poll(me, CI_Registering(nextSock),
                                            Put(rg, nextSock, r0), cres, r0, fres)
                 IN  [r EXCEPT !.newsock = TRUE, !.path = <<"Registering">> \o @]
      [] self.phase = "Registering" ->
            CASE rg[self.sock] = "failed" ->
                    CI_Out(CI_Polled, "RegisterError", NoStream, None, "-", <<"Polled">>)
              [] rg[self.sock] = "ready" ->
                    LET r == ConnectInner_poll(me,
                                 CI_Connecting(TcpStreamNew(self.sock, self.sock)),
                                 rg, cres, r0, fres)
                    IN  [r EXCEPT !.path = <<"Connecting">> \o @]
              [] OTHER ->
                    CI_Out(CI_Registering(self.sock), "NotReady", NoStream, None, "-", <<>>)
      [] self.phase = "Connecting" ->
            LET o == operate(me, self.stream, Write, fres)
            IN  CASE o.res = "Ok" ->
                        CI_Out(CI_Polled, "Ready", o.self, o.fresh, fres, <<"Polled">>)
                  [] o.res = "WouldBlock" ->
                        CI_Out(CI_Polled, "NotReady", NoStream, o.fresh, fres, <<"Polled">>)
                  [] OTHER ->
                        CI_Out(CI_Polled, o.res, NoStream, o.fresh, fres, <<"Polled">>)
      [] OTHER -> CI_Out(self, "Panic", NoStream, None, "-", <<>>)

\* TcpStream::connect(addr): a new Connect future.
TcpStreamConnect ==
    LET c == Cardinality(DOMAIN connects) + 1
    IN  /\ c <= MaxConnects
        /\ connects' = Put(connects, c, CI_Connect)
        /\ phases' = Put(phases, c, <<"Connect">>)
        /\ ret' = Ret("TcpStream::connect", c, "-", "Ok", FALSE, 0)
        /\ UNCHANGED <<streams, listener, mon, regs, connected, nextSock>>
        /\ UNCHANGED poolVars

\* Connect::poll on the future c.
ConnectPoll(c) ==
    /\ c \in DOMAIN connects
    /\ \E cres \in {"Ok", "IoError"}, r0 \in {"pending", "ready", "failed"},
          fres \in SockResult :
         LET r == ConnectInner_poll(ConnectOwner(c), connects[c], regs, cres, r0, fres)
         IN  /\ r.newsock => nextSock <= MaxSockets
             /\ r.res = "Ready" => FreshStream <= MaxStreams
             /\ connects' = [connects EXCEPT ![c] = r.self]
             /\ phases' = [phases EXCEPT ![c] = @ \o r.path]
             /\ regs' = IF r.newsock THEN Put(regs, nextSock, r0) ELSE regs
             /\ nextSock' = IF r.newsock THEN nextSock + 1 ELSE nextSock
             /\ streams' = IF r.res = "Ready" THEN Put(streams, FreshStream, r.stream)
                                              ELSE streams
             /\ mon' = Sweep(Requested(IF r.newsock THEN nextSock ELSE connects[c].sock,
                                       Write, ConnectOwner(c), r.fresh),
                             streams', listener)
             /\ Cardinality(DOMAIN mon') <= MaxMonitors
             /\ ret' = Ret("Connect::poll", c, r.probe, r.res, r.probe # "-",
                           IF r.res = "Ready" THEN FreshStream ELSE 0)
    /\ UNCHANGED <<listener, connected>>
    /\ UNCHANGED poolVars

\* ------------------------------------------------------------------- poller

\* The poller sees the handle ready for the interest of the monitor m and
\* fulfils it.
MonitorReady(m) ==
    /\ m \in DOMAIN mon
    /\ mon[m].st = "pending"
    /\ mon' = Sweep([mon EXCEPT ![m].st = "ready"], streams, listener)
    /\ ret' = NoRet
    /\ UNCHANGED <<streams, listener, regs, connected, connects, phases, nextSock>>
    /\ UNCHANGED poolVars

\* The monitor m fails: the poller reports an error, or goes away.
MonitorFail(m) ==
    /\ m \in DOMAIN mon
    /\ mon[m].st = "pending"
    /\ mon' = Sweep([mon EXCEPT ![m].st = "failed"], streams, listener)
    /\ ret' = NoRet
    /\ UNCHANGED <<streams, listener, regs, connected, connects, phases, nextSock>>
    /\ UNCHANGED poolVars

\* The poller has registered the socket k.
RegisterReady(k) ==
    /\ k \in DOMAIN regs
    /\ regs[k] = "pending"
    /\ regs' = [regs EXCEPT ![k] = "ready"]
    /\ ret' = NoRet
    /\ UNCHANGED <<streams, listener, mon, connected, connects, phases, nextSock>>
    /\ UNCHANGED poolVars

\* The registration of the socket k fails.
RegisterFail(k) ==
    /\ k \in DOMAIN regs
    /\ regs[k] = "pending"
    /\ regs' = [regs EXCEPT ![k] = "failed"]
    /\ ret' = NoRet
    /\ UNCHANGED <<streams, listener, mon, connected, connects, phases, nextSock>>
    /\ UNCHANGED poolVars

\* ------------------------------------------------------ ThreadPoolExecutor

\* fib with fib(n - 1) taken for both fibers of a join.
RECURSIVE fib_same(_, _)
fib_same(n, off) ==
    IF n < 2
    THEN <<[kind |-> "finished", n |-> n, c0 |-> 0, c1 |-> 0,
            monitored |-> TRUE, via |-> "handle"]>>
    ELSE LET f0 == fib_same(n - 1, off)
             f1 == fib_same(n - 1, off + Len(f0))
         IN  f0 \o f1 \o
             <<[kind |-> "join", n |-> n, c0 |-> off + Len(f0),
                c1 |-> off + Len(f0) + Len(f1),
                monitored |-> TRUE, via |-> "handle"]>>

\* The fibers fib(n, handle) spawns while it builds its future, in the order
\* of the spawn_monitor calls, and last the fiber of the future it returns;
\* off fibers are spawned before them.  A fiber is "finished" (n < 2:
\* futures::finished(n)) or a "join" of the monitors of the fibers c0 and c1.
RECURSIVE fib(_, _)
fib(n, off) ==
    IF n < 2
    THEN <<[kind |-> "finished", n |-> n, c0 |-> 0, c1 |-> 0,
            monitored |-> TRUE, via |-> "handle"]>>
    ELSE LET f0 == fib(n - 1, off)
             f1 == fib(n - 2, off + Len(f0))
         IN  f0 \o f1 \o
             <<[kind |-> "join", n |-> n, c0 |-> off + Len(f0),
                c1 |-> off + Len(f0) + Len(f1),
                monitored |-> TRUE, via |-> "handle"]>>

\* The doc test: executor.spawn_monitor(fib(n, executor.handle())), the last
\* fiber being spawned through the executor itself.
FibTest(n) ==
    LET f == fib(n, 0)
    IN  [f EXCEPT ![Len(f)].via = "executor"]

\* A fiber spawned with executor.spawn: it finishes with Ok(()) ("finished"),
\* with Err(()) ("failed"), or panics ("panic").
Detached(kind) ==
    [kind |-> kind, n |-> 0, c0 |-> 0, c1 |-> 0, monitored |-> FALSE, via |-> "executor"]

LeafKinds == {"finished", "failed", "panic"}

\* ThreadPoolExecutor::with_thread_count(count): count idle threads.
with_thread_count(count) ==
    [w \in 1..count |-> [st |-> "idle", task |-> 0]]

\* spawn_boxed never handing the fiber to the pool, and never dropping it.
spawn_boxed_leaking(q, fiber) == q

\* ThreadPoolExecutorHandle::spawn_boxed: the fiber, its result mapped to (),
\* goes to the pool, which puts it in its queue.
spawn_boxed(q, fiber) == Append(q, fiber)

\* ThreadPoolExecutor::spawn_boxed: through a handle of the executor.
executor_spawn_boxed(q, fiber) == spawn_boxed(q, fiber)

\* ThreadPoolExecutor::run_once
run_once == "Ok"

NoRun == [res |-> "-", dead |-> {}]

\* A result: of the poll of a fiber ("NotReady", "Panic", "Ok" with its
\* value, "Err"), of the task the pool runs ("NotReady", "Panic", "Unit"),
\* or of a monitor ("none" while it is pending, "-" where
\* there is none, "Ok" with the value, "Failed", "Aborted").
Res(tag, v) == [tag |-> tag, v |-> v]

Dead == {w \in DOMAIN worker : worker[w].st = "dead"}

\* The main thread spawns the next fiber of its plan: spawn_monitor makes
\* the monitor and spawns the fiber that reports to it; spawn spawns the
\* fiber as it is.
Spawn ==
    /\ mainpc = "spawn"
    /\ spawned < Len(plan)
    /\ LET i == spawned + 1
           q == IF plan[i].via = "executor" THEN executor_spawn_boxed(queue, i)
                                            ELSE spawn_boxed(queue, i)
       IN  /\ spawned' = i
           /\ queue' = q
           /\ tst' = [tst EXCEPT ![i] = IF i \in {q[k] : k \in 1..Len(q)}
                                         THEN "queued" ELSE "lost"]
           /\ pmon' = [pmon EXCEPT ![i] = Res(IF plan[i].monitored THEN "none" ELSE "-", 0)]
           /\ mainpc' = IF i = Len(plan) THEN "run" ELSE "spawn"
    /\ ran' = NoRun
    /\ UNCHANGED <<plan, answer, worker>>
    /\ UNCHANGED tcpVars

\* One turn of the loop of run_fiber on the monitor of the last fiber: the
\* result of the monitor if it is complete, else run_once and again.
RunFiber ==
    /\ mainpc = "run"
    /\ IF pmon[Len(plan)].tag # "none"
       THEN /\ answer' = pmon[Len(plan)]
            /\ mainpc' = "done"
            /\ ran' = NoRun
       ELSE /\ ran' = [res |-> run_once, dead |-> Dead]
            /\ UNCHANGED <<answer, mainpc>>
    /\ UNCHANGED <<plan, spawned, tst, queue, worker, pmon>>
    /\ UNCHANGED tcpVars

\* A thread of the pool takes the next task off the queue.
WorkerTake(w) ==
    /\ w \in DOMAIN worker
    /\ worker[w].st = "idle"
    /\ queue # <<>>
    /\ worker' = [worker EXCEPT ![w] = [st |-> "busy", task |-> Head(queue)]]
    /\ queue' = Tail(queue)
    /\ tst' = [tst EXCEPT ![Head(queue)] = "polling"]
    /\ ran' = NoRun
    /\ UNCHANGED <<plan, spawned, mainpc, answer, pmon>>
    /\ UNCHANGED tcpVars

\* What a monitor yields to the future that joins it.
IsOk(r) == r.tag = "Ok"

IsErr(r) == r.tag \in {"Failed", "Aborted"}

\* The poll of the future of fiber i.  A join fails once a monitor it joins has failed,
\* and yields the sum when both have a value.
PollFiber(i) ==
    LET f == plan[i] IN
    CASE f.kind = "finished" -> Res("Ok", f.n)
      [] f.kind = "failed"   -> Res("Err", 0)
      [] f.kind = "panic"    -> Res("Panic", 0)
      [] OTHER ->
            IF IsErr(pmon[f.c0]) \/ IsErr(pmon[f.c1])
            THEN Res("Err", 0)
            ELSE IF IsOk(pmon[f.c0]) /\ IsOk(pmon[f.c1])
                 THEN Res("Ok", pmon[f.c0].v + pmon[f.c1].v)
                 ELSE Res("NotReady", 0)

\* The fibers parked on the monitor of fiber i: woken when it completes.
Waiting(i) ==
    {j \in 1..spawned : /\ plan[j].kind = "join"
                        /\ i \in {plan[j].c0, plan[j].c1}
                        /\ tst[j] = "parked"}

\* Appending the fibers of a set to the queue, least first.
RECURSIVE Enqueue(_, _)
Enqueue(q, S) ==
    IF S = {} THEN q
    ELSE LET j == CHOOSE x \in S : \A y \in S : x <= y
         IN  Enqueue(Append(q, j), S \ {j})

\* future03 with the result unwrapped: an Err(()) of the fiber panics in
\* the thread that polls it.
future03_unwrapping(r) ==
    CASE r.tag = "Ok"  -> Res("Unit", 0)
      [] r.tag = "Err" -> Res("Panic", 0)
      [] OTHER         -> r

\* let future03 = fiber.compat().map(|_result| ()): what the task handed to
\* the pool yields when the fiber's poll yields r.  A result, Ok(()) or
\* Err(()), becomes ().
future03(r) ==
    CASE r.tag \in {"Ok", "Err"} -> Res("Unit", 0)
      [] OTHER                   -> r

\* A thread of the pool polls the task it took.  A fiber that finishes or
\* panics completes its monitor (with its result, or Aborted as the fiber is
\* dropped) and wakes the fiber waiting for it; a panic unwinds the thread.
WorkerPoll(w) ==
    /\ w \in DOMAIN worker
    /\ worker[w].st = "busy"
    /\ LET i == worker[w].task
           r == PollFiber(i)
           out == future03(r)
       IN  IF out.tag = "NotReady"
           THEN /\ tst' = [tst EXCEPT ![i] = "parked"]
                /\ worker' = [worker EXCEPT ![w] = [st |-> "idle", task |-> 0]]
                /\ UNCHANGED <<queue, pmon>>
           ELSE /\ pmon' = [pmon EXCEPT ![i] =
                              IF ~plan[i].monitored THEN Res("-", 0)
                              ELSE IF r.tag = "Panic" THEN Res("Aborted", 0)
                              ELSE IF r.tag = "Err" THEN Res("Failed", 0)
                              ELSE r]
                /\ queue' = IF plan[i].monitored THEN Enqueue(queue, Waiting(i)) ELSE queue
                /\ tst' = [j \in DOMAIN tst |->
                              IF j = i THEN "done"
                              ELSE IF plan[i].monitored /\ j \in Waiting(i) THEN "queued"
                              ELSE tst[j]]
                /\ worker' = [worker EXCEPT ![w] =
                                [st |-> IF out.tag = "Panic" THEN "dead" ELSE "idle", task |-> 0]]
    /\ ran' = NoRun
    /\ UNCHANGED <<plan, spawned, mainpc, answer>>
    /\ UNCHANGED tcpVars

\* ------------------------------------------------------------ specification

Empty == [x \in {} |-> 0]

\* No executor is there.
NoPool ==
    /\ plan = <<>>
    /\ spawned = 0
    /\ mainpc = "done"
    /\ answer = Res("none", 0)
    /\ tst = <<>>
    /\ queue = <<>>
    /\ worker = <<>>
    /\ pmon = <<>>
    /\ ran = NoRun

\* TcpListenerBind::poll has yielded the listener: registered, no monitor.
Init ==
    /\ streams = Empty
    /\ listener = [handle |-> 0, monitor |-> None]
    /\ mon = Empty
    /\ regs = Empty
    /\ connected = Empty
    /\ connects = Empty
    /\ phases = Empty
    /\ nextSock = 1
    /\ ret = NoRet
    /\ NoPool

\* What the fibers do with the TcpStream values they hold, and the poller
\* with the monitors requested from it.
StreamNext ==
    \/ \E s \in DOMAIN streams : read(s)
    \/ \E s \in DOMAIN streams : write(s)
    \/ \E s \in DOMAIN streams : flush(s)
    \/ \E s \in DOMAIN streams : drop(s)
    \/ \E m \in DOMAIN mon : MonitorReady(m)
    \/ \E m \in DOMAIN mon : MonitorFail(m)

\* The poller and the registrations requested from it.
RegisterNext ==
    \/ \E k \in DOMAIN regs : RegisterReady(k)
    \/ \E k \in DOMAIN regs : RegisterFail(k)

\* The accepting side: a listener, the connections it accepts, and the
\* TcpStream values made of them.
Next ==
    \/ IncomingPoll
    \/ \E c \in DOMAIN connected : ConnectedPoll(c)
    \/ RegisterNext
    \/ StreamNext

\* The connecting side: Connect futures and the TcpStream values they yield.
ConnectNext ==
    \/ TcpStreamConnect
    \/ \E c \in DOMAIN connects : ConnectPoll(c)
    \/ RegisterNext
    \/ StreamNext

\* Both sides: the futures that yield TcpStream values, without what is
\* done with the values afterwards.
FutureNext ==
    \/ IncomingPoll
    \/ \E c \in DOMAIN connected : ConnectedPoll(c)
    \/ TcpStreamConnect
    \/ \E c \in DOMAIN connects : ConnectPoll(c)
    \/ RegisterNext
    \/ \E m \in DOMAIN mon : MonitorReady(m)
    \/ \E m \in DOMAIN mon : MonitorFail(m)

\* An accepted connection whose Connected future has just yielded its
\* TcpStream (the state Spec reaches by accept, registration, poll).
StreamInit ==
    /\ streams = (1 :> TcpStreamNew(1, 1))
    /\ listener = [handle |-> 0, monitor |-> None]
    /\ mon = Empty
    /\ regs = (1 :> "ready")
    /\ connected = (1 :> [some |-> FALSE, sock |-> 1])
    /\ connects = Empty
    /\ phases = Empty
    /\ nextSock = 2
    /\ ret = Ret("Connected::poll", 1, "-", "Ready", FALSE, 1)
    /\ NoPool

\* One connection: its TcpStream and the clones made of it.
CloneNext ==
    \/ \E s \in DOMAIN streams : clone(s)
    \/ StreamNext

\* The main thread is about to spawn its plan on a new executor: the doc
\* test for some n, one of its leaves possibly failing or panicking, after
\* possibly one detached fiber.
Plans ==
    {[f EXCEPT ![1].kind = k] : f \in {FibTest(n) : n \in 0..MaxN}, k \in LeafKinds}
    \cup {<<Detached(d)>> \o fib(n, 1) : d \in LeafKinds, n \in 0..MaxN}

\* The main thread is about to spawn a plan on a new executor.
Start(pl, count) ==
    /\ plan = pl
    /\ worker = with_thread_count(count)
    /\ spawned = 0
    /\ mainpc = "spawn"
    /\ answer = Res("none", 0)
    /\ tst = [i \in 1..Len(plan) |-> "new"]
    /\ queue = <<>>
    /\ pmon = [i \in 1..Len(plan) |-> Res("-", 0)]
    /\ ran = NoRun
    /\ streams = Empty
    /\ listener = [handle |-> 0, monitor |-> None]
    /\ mon = Empty
    /\ regs = Empty
    /\ connected = Empty
    /\ connects = Empty
    /\ phases = Empty
    /\ nextSock = 1
    /\ ret = NoRet

PoolInit == \E pl \in Plans, count \in 1..MaxPool : Start(pl, count)

\* The doc test as it is written, fib(DocN), and for the smaller n.
DocN == 7

FibInit ==
    \/ \E n \in 0..MaxN, count \in 1..MaxPool : Start(FibTest(n), count)
    \/ Start(FibTest(DocN), 1)

PoolNext ==
    \/ Spawn
    \/ RunFiber
    \/ \E w \in DOMAIN worker : WorkerTake(w)
    \/ \E w \in DOMAIN worker : WorkerPoll(w)

vars == <<tcpVars, poolVars>>

Spec == Init /\ [][Next]_vars

ConnectSpec == Init /\ [][ConnectNext]_vars

StreamSpec == StreamInit /\ [][CloneNext]_vars

FutureSpec == Init /\ [][FutureNext]_vars

PoolSpec == PoolInit /\ [][PoolNext]_vars

\* The threads of the pool and the main thread are scheduled by the
\* operating system: none that can run waits for ever.
FibSpec ==
    /\ FibInit /\ [][PoolNext]_vars
    /\ WF_vars(Spawn)
    /\ WF_vars(RunFiber)
    /\ \A w \in 1..MaxPool : WF_vars(WorkerTake(w)) /\ WF_vars(WorkerPoll(w))

\* ------------------------------------------------------------------ claims

StreamOps == {"read", "write", "flush"}

\* The monitors armed for the owner and the interest: requested by it and
\* not fulfilled or failed yet.
Armed(owner, interest) ==
    {m \in DOMAIN mon : /\ mon[m].owner = owner
                        /\ mon[m].interest = interest
                        /\ mon[m].st = "pending"}

\* The monitor slot of a socket value for an interest (a listener has a read
\* slot only).
Slot(owner, interest) ==
    IF owner = ListenerOwner
    THEN (IF interest = Read THEN listener.monitor ELSE None)
    ELSE monitor(streams[owner], interest)

IsPrefix(p, q) == Len(p) <= Len(q) /\ \A i \in 1..Len(p) : p[i] = q[i]

\* C1, as stated: no read, write or flush of a TcpStream returns the
\* would-block error to its caller.
C1_WouldBlockNeverReturned ==
    ~(ret.op \in StreamOps /\ ret.res = "WouldBlock")

\* C1, amended: a read, write or flush that returns would-block leaves a
\* pending monitor of the stream's handle, for the interest of the call, in
\* the slot of that interest.
C1_WouldBlockLeavesMonitorArmed ==
    (ret.op \in StreamOps /\ ret.res = "WouldBlock") =>
        /\ ret.id \in DOMAIN streams
        /\ LET m == monitor(streams[ret.id], ret.arg)
           IN  /\ m \in DOMAIN mon
               /\ mon[m].st = "pending"
               /\ mon[m].handle = streams[ret.id].handle
               /\ mon[m].interest = ret.arg

\* C1: a read found the socket not ready and returned would-block.
C1_Witness ==
    ret.op = "read" /\ ret.res = "WouldBlock" /\ ret.called

\* C2: of the monitors requested from one handle for one interest, at most
\* one is armed (pending, and held by a live TcpStream value or listener).
C2_OneArmedMonitorPerHandle ==
    \A h \in {streams[s].handle : s \in DOMAIN streams}, d \in Interest :
        Cardinality({m \in DOMAIN mon : /\ mon[m].handle = h
                                        /\ mon[m].interest = d
                                        /\ mon[m].st = "pending"
                                        /\ m \in HeldIn(streams, listener)}) <= 1

\* C3: for every socket value (a TcpStream value, the listener) and every
\* interest at most one monitor is armed, and it is the one in the slot: no
\* monitor was requested over one that was still pending.
C3_OneArmedPerSocketAndDirection ==
    \A o \in DOMAIN streams \cup {ListenerOwner}, d \in Interest :
        /\ Cardinality(Armed(o, d)) <= 1
        /\ Armed(o, d) \subseteq {Slot(o, d)}

\* C3: a read returned would-block on a monitor that was still pending
\* (the socket was not tried, nothing was requested) while the listener has
\* a monitor armed too.
C3_Witness ==
    /\ ret.op = "read" /\ ret.res = "WouldBlock" /\ ~ret.called
    /\ Armed(ret.id, Read) # {}
    /\ Armed(ListenerOwner, Read) # {}

\* C8: Incoming::poll returns an item, NotReady or an error, never the end
\* of the stream.
C8_IncomingNeverEnds ==
    ret.op = "Incoming::poll" =>
        ret.res \in {"ReadySome", "NotReady", "IoError", "MonitorError"}

\* C8: accept() failed with an error that is not would-block, after an
\* earlier connection had been accepted.
C8_Witness ==
    ret.op = "Incoming::poll" /\ ret.res = "IoError" /\ nextSock > 1

\* C9: Connected::poll returns NotReady, and keeps the stream and the
\* registration, exactly when the registration is pending; it returns
\* Ready exactly when the registration is complete, with a TcpStream of
\* the accepted socket that carries the handle of that registration.
C9_ConnectedAfterRegistration ==
    (ret.op = "Connected::poll" /\ ret.res # "Panic") =>
        LET c == ret.id IN
        /\ (ret.res = "NotReady") <=> (regs[connected[c].sock] = "pending")
        /\ (ret.res = "NotReady") => connected[c].some
        /\ (ret.res = "Ready") <=> (regs[connected[c].sock] = "ready")
        /\ (ret.res = "Ready") =>
              /\ ~connected[c].some
              /\ ret.val \in DOMAIN streams
              /\ streams[ret.val] = TcpStreamNew(connected[c].sock, connected[c].sock)

\* C9: a Connected future has yielded its TcpStream.
C9_Witness ==
    ret.op = "Connected::poll" /\ ret.res = "Ready"

ConnectPhases == <<"Connect", "Registering", "Connecting", "Polled">>

\* C10, as stated: a Connect future goes through its phases one after the
\* other, skipping none.
C10_NoPhaseSkipped ==
    \A c \in DOMAIN connects : IsPrefix(phases[c], ConnectPhases)

\* C10, amended: the phases are entered in the order Connect, Registering,
\* Connecting, Done and none is entered again; one is skipped only by a
\* poll that fails, which goes straight to Done.  A TcpStream is yielded
\* only through all four, with the registration complete and the probe
\* successful; a would-block of the probe yields NotReady and another
\* error of it that error.
C10_ConnectPhases ==
    /\ \A c \in DOMAIN connects :
          LET p == phases[c] IN
          /\ connects[c].phase = p[Len(p)]
          /\ IsPrefix(IF p[Len(p)] = "Polled" THEN SubSeq(p, 1, Len(p) - 1) ELSE p,
                      SubSeq(ConnectPhases, 1, 3))
    /\ (ret.op = "Connect::poll" /\ ret.res # "Panic") =>
          LET p == phases[ret.id] IN
          /\ (p[Len(p)] = "Polled" /\ p # ConnectPhases)
                => ret.res \in {"IoError", "RegisterError"}
          /\ ret.arg # "-" => p = ConnectPhases
          /\ ret.res = "Ready" =>
                /\ ret.arg = "Ok"
                /\ ret.val \in DOMAIN streams
                /\ regs[streams[ret.val].inner] = "ready"
                /\ streams[ret.val].handle = streams[ret.val].inner
          /\ ret.arg = "Ok" => ret.res = "Ready"
          /\ ret.arg = "WouldBlock" => ret.res = "NotReady"
          /\ ret.arg = "IoError" => ret.res = "IoError"

\* C10: a Connect future that waited for its registration has yielded a
\* TcpStream.
C10_Witness ==
    /\ ret.op = "Connect::poll" /\ ret.res = "Ready"
    /\ phases[ret.id] = ConnectPhases

\* Nothing is left for the pool to run.
Quiescent ==
    /\ queue = <<>>
    /\ \A w \in DOMAIN worker : worker[w].st # "busy"

Complete(i) == pmon[i].tag \in {"Ok", "Failed", "Aborted"}

\* What the monitor of fiber i is due: the result of its future, Aborted
\* if the future panics.
RECURSIVE Due(_)
Due(i) ==
    LET f == plan[i] IN
    CASE f.kind = "finished" -> Res("Ok", f.n)
      [] f.kind = "failed"   -> Res("Failed", 0)
      [] f.kind = "panic"    -> Res("Aborted", 0)
      [] OTHER -> IF IsOk(Due(f.c0)) /\ IsOk(Due(f.c1))
                  THEN Res("Ok", Due(f.c0).v + Due(f.c1).v)
                  ELSE Res("Failed", 0)

C5_RunOnceFailsAfterAbort ==
    (ran.res # "-" /\ ran.dead # {}) => ran.res # "Ok"

\* C7: the k-th fiber spawned is polled by the thread k mod N only.
C7_RoundRobinNoMigration ==
    \A w \in DOMAIN worker :
        worker[w].st = "busy" => w - 1 = (worker[w].task - 1) % Len(worker)

\* The Fibonacci numbers.
RECURSIVE F(_)
F(n) == IF n < 2 THEN n ELSE F(n - 1) + F(n - 2)

Root == plan[Len(plan)]

\* C6: the doc test of fib(n) ends, for every n and every size of the pool;
\* run_fiber returns Ok(F(n)); and until the monitor of the last fiber is
\* complete there is a fiber to spawn or a task for a thread to take or
\* to poll.
C6_FibTerminates ==
    /\ <>(mainpc = "done")
    /\ [](mainpc = "done" => answer = Res("Ok", F(Root.n)))
    /\ [](~Complete(Len(plan)) =>
            \/ mainpc = "spawn"
            \/ \E w \in DOMAIN worker :
                  \/ worker[w].st = "busy"
                  \/ worker[w].st = "idle" /\ queue # <<>>)

\* C6: fib(7) has returned Ok(13) on a pool of one thread.
C6_Witness ==
    /\ Root.n = DocN /\ Len(worker) = 1
    /\ mainpc = "done" /\ answer = Res("Ok", 13)

\* C11: a Connect::poll that returns NotReady leaves the future in the phase
\* it waits in, Registering or Connecting, with its socket; never in Polled.
C11_NotReadyKeepsPhase ==
    (ret.op = "Connect::poll" /\ ret.res = "NotReady") =>
        /\ connects[ret.id].phase \in {"Registering", "Connecting"}
        /\ connects[ret.id].sock \in DOMAIN regs

\* The state of the monitor in the slot of the TcpStream value s for the
\* interest d: "none" if the slot is empty.
SlotState(s, d) ==
    LET m == monitor(streams[s], d)
    IN  IF m = None THEN "none" ELSE mon[m].st

\* C12: in every state, for every TcpStream value, interest and outcome of
\* f: operate on a slot whose monitor is pending returns would-block, does
\* not call f, requests nothing, and leaves that monitor in the slot; on a
\* slot whose monitor is ready it takes the monitor out of the slot and
\* calls f in the same call, the result being that of f.  A would-block
\* returned without a call of f leaves a pending monitor in the slot.
C12_PendingParksReadyFallsThrough ==
    /\ \A s \in DOMAIN streams, d \in Interest, fres \in SockResult :
          LET m == monitor(streams[s], d)
              r == operate(s, streams[s], d, fres)
          IN  /\ SlotState(s, d) = "pending" =>
                    /\ r.res = "WouldBlock" /\ ~r.called /\ r.fresh = None
                    /\ monitor(r.self, d) = m
              /\ SlotState(s, d) = "ready" =>
                    /\ r.called /\ r.res = fres
                    /\ monitor(r.self, d) # m
                    /\ monitor(r.self, d) \in {None, r.fresh}
    /\ (ret.op \in StreamOps /\ ret.res = "WouldBlock" /\ ~ret.called) =>
          SlotState(ret.id, ret.arg) = "pending"

\* C12: a call found the first monitor of its slot ready, took it out and
\* called f, which would block: the slot holds the second monitor the value
\* requested (the first was still registered when the second was named).
C12_Witness ==
    /\ ret.op \in StreamOps /\ ret.called /\ ret.res = "WouldBlock"
    /\ monitor(streams[ret.id], ret.arg) = <<ret.id, ret.arg, 2>>

\* C13: in every state, for every TcpStream value, interest and outcome of
\* f: operate requests a monitor exactly when it called f and f returned
\* would-block; if f was called its outcome is returned as it is; after
\* another outcome than would-block the slot is empty; after a would-block
\* the slot holds the monitor requested, a new one, which is registered
\* pending for the handle of the stream and the same interest.
C13_ArmsExactlyOnWouldBlock ==
    /\ \A s \in DOMAIN streams, d \in Interest, fres \in SockResult :
          LET r == operate(s, streams[s], d, fres)
          IN  /\ (r.fresh # None) <=> (r.called /\ fres = "WouldBlock")
              /\ r.called =>
                    /\ r.res = fres
                    /\ fres # "WouldBlock" => monitor(r.self, d) = None
                    /\ fres = "WouldBlock" =>
                          /\ monitor(r.self, d) = r.fresh
                          /\ r.fresh \notin DOMAIN mon
                          /\ Requested(streams[s].handle, d, s, r.fresh)[r.fresh]
                                = NewMonitor(streams[s].handle, d, s)
    /\ (ret.op \in StreamOps /\ ret.called) =>
          (ret.res = "WouldBlock" <=> SlotState(ret.id, ret.arg) = "pending")
    /\ (ret.op \in StreamOps /\ ret.called /\ ret.res # "WouldBlock") =>
          SlotState(ret.id, ret.arg) = "none"

\* C13: a write called the socket, which failed with another error than
\* would-block, and the write slot is empty while the read slot is armed.
C13_Witness ==
    /\ ret.op = "write" /\ ret.called /\ ret.res = "IoError"
    /\ SlotState(ret.id, Write) = "none"
    /\ SlotState(ret.id, Read) = "pending"

\* C14: a read is made with the read interest and a write or flush with the
\* write interest; in every state, for every TcpStream value and outcome of
\* the socket call, operate for the read interest leaves write_monitor as
\* it is and calls the socket if read_monitor is empty, whatever
\* write_monitor holds, and operate for the write interest leaves
\* read_monitor as it is and calls the socket if write_monitor is empty;
\* and what operate does for an interest is the same whatever monitor of
\* the value, or none, is put in the slot of the other.
C14_DirectionsIndependent ==
    /\ ret.op = "read" => ret.arg = Read
    /\ ret.op \in {"write", "flush"} => ret.arg = Write
    /\ \A s \in DOMAIN streams, fres \in SockResult :
          LET self == streams[s]
              r == operate(s, self, Read, fres)
              w == operate(s, self, Write, fres)
          IN  /\ r.self.write_monitor = self.write_monitor
              /\ (self.read_monitor = None) => r.called
              /\ w.self.read_monitor = self.read_monitor
              /\ (self.write_monitor = None) => w.called
              /\ \A v \in {m \in DOMAIN mon : mon[m].owner = s} \cup {None} :
                    /\ operate(s, [self EXCEPT !.write_monitor = v], Read, fres)
                          = [r EXCEPT !.self.write_monitor = v]
                    /\ operate(s, [self EXCEPT !.read_monitor = v], Write, fres)
                          = [w EXCEPT !.self.read_monitor = v]

\* C14: a flush called the socket and succeeded while the read monitor of
\* the same TcpStream value was pending, and it still is.
C14_Witness ==
    /\ ret.op = "flush" /\ ret.called /\ ret.res = "Ok"
    /\ streams[ret.id].read_monitor # None
    /\ mon[streams[ret.id].read_monitor].st = "pending"

\* C15: a clone has the socket and the handle of the original and two
\* empty slots; cloning changes no TcpStream value there was; and a read,
\* write or flush of one TcpStream value changes no other value; so a
\* call on a new clone goes to the socket whatever monitors the original
\* holds.
C15_CloneOwnSlots ==
    /\ [][ret'.op = "clone" =>
            /\ ret'.val \notin DOMAIN streams
            /\ DOMAIN streams' = DOMAIN streams \cup {ret'.val}
            /\ \A t \in DOMAIN streams : streams'[t] = streams[t]
            /\ streams'[ret'.val].inner = streams[ret'.id].inner
            /\ streams'[ret'.val].handle = streams[ret'.id].handle
            /\ streams'[ret'.val].read_monitor = None
            /\ streams'[ret'.val].write_monitor = None]_vars
    /\ [][ret'.op \in StreamOps =>
            \A t \in DOMAIN streams \ {ret'.id} : streams'[t] = streams[t]]_vars
    /\ [](\A s \in DOMAIN streams, d \in Interest, fres \in SockResult :
            operate(s, TcpStreamClone(streams[s]), d, fres).called)

\* C15: a TcpStream value with a pending read monitor has just been
\* cloned: the clone shares socket and handle, and its slots are empty.
C15_Witness ==
    /\ ret.op = "clone"
    /\ SlotState(ret.id, Read) = "pending"
    /\ streams[ret.val].handle = streams[ret.id].handle
    /\ SlotState(ret.val, Read) = "none"

\* The state of the monitor in the slot of the listener: "none" if empty.
ListenerSlotState ==
    IF listener.monitor = None THEN "none" ELSE mon[listener.monitor].st

\* C16: in every state and for every outcome of accept(): Incoming::poll
\* calls accept exactly when the slot is empty or its monitor is ready; a
\* pending monitor gives NotReady with the listener unchanged; a ready one
\* is taken out and accept called in the same poll; accept's connection is
\* yielded by that poll, and its would-block gives NotReady with a new
\* pending Read monitor of the listener's handle in the slot.  NotReady is
\* returned only with a pending monitor in the slot.
C16_AcceptParksAndRetries ==
    /\ \A acc \in SockResult :
          LET r == Incoming_poll(listener, acc)
          IN  /\ r.called <=> ListenerSlotState \in {"none", "ready"}
              /\ ListenerSlotState = "pending" =>
                    r.res = "NotReady" /\ r.self = listener /\ r.fresh = None
              /\ ListenerSlotState = "ready" => r.self.monitor # listener.monitor
              /\ r.called =>
                    /\ acc = "Ok" => r.res = "ReadySome" /\ r.self.monitor = None
                    /\ acc = "WouldBlock" =>
                          /\ r.res = "NotReady"
                          /\ r.fresh # None /\ r.fresh \notin DOMAIN mon
                          /\ r.self.monitor = r.fresh
                          /\ Requested(listener.handle, Read, ListenerOwner, r.fresh)[r.fresh]
                                = NewMonitor(listener.handle, Read, ListenerOwner)
                    /\ acc # "WouldBlock" => r.fresh = None
    /\ (ret.op = "Incoming::poll" /\ ret.res = "NotReady") =>
          ListenerSlotState = "pending"
    /\ (ret.op = "Incoming::poll" /\ ret.res = "ReadySome") =>
          /\ ret.called /\ ListenerSlotState = "none"
          /\ ret.val \in DOMAIN connected /\ connected[ret.val].some

\* C16: a poll found the listener's first monitor ready, took it out and
\* called accept in the same poll; accept would block again, so the slot
\* holds the second monitor of the listener (the first was still
\* registered when the second was named).
C16_Witness ==
    /\ ret.op = "Incoming::poll" /\ ret.called /\ ret.res = "NotReady"
    /\ listener.monitor = <<ListenerOwner, Read, 2>>

\* The fibers spawned detached that finish with a result, Ok(()) or Err(()).
Discarded ==
    {i \in 1..Len(plan) : ~plan[i].monitored /\ plan[i].kind \in {"finished", "failed"}}

\* C17: the poll that finishes a detached fiber, with Ok(()) or with
\* Err(()) alike, leaves the fiber done, its thread idle, and the queue and
\* the monitors as they were; no thread dies unless a fiber panics;
\* run_once returns Ok; and with a detached fiber that fails, the fibers
\* spawned after it run: when the pool is quiescent all of them are done,
\* and run_fiber returns Ok of the number they compute.
C17_DetachedOutcomeDiscarded ==
    /\ [][\A w \in DOMAIN worker :
            (/\ worker[w].st = "busy"
             /\ worker[w].task \in Discarded
             /\ worker'[w] # worker[w]) =>
                /\ worker'[w] = [st |-> "idle", task |-> 0]
                /\ tst'[worker[w].task] = "done"
                /\ queue' = queue /\ pmon' = pmon]_vars
    /\ []((\A i \in 1..Len(plan) : plan[i].kind # "panic") => Dead = {})
    /\ [](ran.res # "-" => ran.res = "Ok")
    /\ [](\A i \in Discarded :
            /\ (Quiescent /\ spawned = Len(plan)) => \A j \in 1..Len(plan) : tst[j] = "done"
            /\ mainpc = "done" => answer = Res("Ok", F(Root.n)))

\* C17: a fiber spawned detached has finished with Err(()), the fibers of
\* fib(MaxN) spawned after it have run, and run_fiber has returned their
\* number.
C17_Witness ==
    /\ Len(plan) > 1 /\ plan[1] = Detached("failed") /\ tst[1] = "done"
    /\ Root.n = MaxN
    /\ mainpc = "done" /\ answer = Res("Ok", F(MaxN))

\* C18: in every state, for every TcpStream value, interest and outcome of
\* f: operate on a slot whose monitor has failed returns the monitor's
\* error, does not call f, requests nothing and leaves the slot empty, so
\* that the same call made again calls f and returns its outcome; and the
\* same holds of Incoming::poll, the listener's slot and accept.  A call
\* that has returned the monitor's error has left the slot empty, and the
\* next call on that value for that interest calls the socket.
C18_FailedMonitorReportedOnce ==
    /\ [](\A s \in DOMAIN streams, d \in Interest, fres \in SockResult :
            LET r == operate(s, streams[s], d, fres)
                again == operate(s, r.self, d, fres)
            IN  /\ (r.res = "MonitorError") <=> (SlotState(s, d) = "failed")
                /\ SlotState(s, d) = "failed" =>
                      /\ ~r.called /\ r.fresh = None
                      /\ monitor(r.self, d) = None
                      /\ again.called /\ again.res = fres)
    /\ [](\A acc \in SockResult :
            LET r == Incoming_poll(listener, acc)
                again == Incoming_poll(r.self, acc)
            IN  /\ (r.res = "MonitorError") <=> (ListenerSlotState = "failed")
                /\ ListenerSlotState = "failed" =>
                      /\ ~r.called /\ r.fresh = None
                      /\ r.self.monitor = None
                      /\ again.called)
    /\ []((ret.op \in StreamOps /\ ret.res = "MonitorError") =>
            ~ret.called /\ SlotState(ret.id, ret.arg) = "none")
    /\ []((ret.op = "Incoming::poll" /\ ret.res = "MonitorError") =>
            ~ret.called /\ ListenerSlotState = "none")
    /\ [][(/\ ret.res = "MonitorError"
            /\ ret.op \in StreamOps \cup {"Incoming::poll"}
            /\ ret'.op \in (IF ret.op = "Incoming::poll" THEN {ret.op} ELSE StreamOps)
            /\ ret'.id = ret.id /\ ret'.arg = ret.arg) => ret'.called]_vars

\* C18: a read has returned the error of the failed read monitor, without
\* calling the socket, and the read slot is empty.
C18_Witness ==
    /\ ret.op = "read" /\ ret.res = "MonitorError" /\ ~ret.called
    /\ SlotState(ret.id, Read) = "none"

\* The results with which a future is over.
Final == {"Ready", "IoError", "RegisterError", "MonitorError"}

\* C19: a Connected future that holds no stream, and a Connect future
\* that is Polled, never hold one again; a poll of such a future panics
\* and yields no TcpStream; a poll that returns Ready or an error leaves
\* the future without its socket; a Ready adds one new TcpStream value;
\* and no socket is yielded as a TcpStream twice.
C19_AtMostOneStream ==
    /\ [][\A c \in DOMAIN connected : ~connected[c].some => ~connected'[c].some]_vars
    /\ [][\A c \in DOMAIN connects :
            connects[c] = CI_Polled => connects'[c] = CI_Polled]_vars
    /\ [][(ret'.op = "Connected::poll" /\ ret'.id \in DOMAIN connected) =>
            IF connected[ret'.id].some
            THEN /\ ret'.res \in Final => ~connected'[ret'.id].some
                 /\ ret'.res \notin Final => streams' = streams
                 /\ ret'.res = "Ready" =>
                       /\ ret'.val \notin DOMAIN streams
                       /\ DOMAIN streams' = DOMAIN streams \cup {ret'.val}
            ELSE ret'.res = "Panic" /\ streams' = streams /\ connected' = connected]_vars
    /\ [][(ret'.op = "Connect::poll" /\ ret'.id \in DOMAIN connects) =>
            IF connects[ret'.id] # CI_Polled
            THEN /\ ret'.res \in Final => connects'[ret'.id] = CI_Polled
                 /\ ret'.res \notin Final => streams' = streams
                 /\ ret'.res = "Ready" =>
                       /\ ret'.val \notin DOMAIN streams
                       /\ DOMAIN streams' = DOMAIN streams \cup {ret'.val}
            ELSE /\ ret'.res = "Panic"
                 /\ streams' = streams /\ connects' = connects /\ regs' = regs]_vars
    /\ [](\A k \in DOMAIN regs :
            Cardinality({s \in DOMAIN streams : streams[s].inner = k}) <= 1)

\* C19: a Connected future that has yielded its TcpStream was polled again,
\* and the poll panicked.
C19_Witness ==
    /\ ret.op = "Connected::poll" /\ ret.res = "Panic"
    /\ \E s \in DOMAIN streams : streams[s].inner = connected[ret.id].sock
====
